---- MODULE Spec2Model ----
(***************************************************************************)
(* Model of the audio-to-Morse pipeline of src/src/pipewire.rs (listen):   *)
(* the param_changed callback, the process callback with its per-channel   *)
(* loop (tone detection, signal-change branch, idle-timeout branch), the   *)
(* whitespace normalisation and the terminal / log output.                 *)
(*                                                                         *)
(* Time is in milliseconds.  Amplitudes are in units of 1/60, so that      *)
(* max * 30.0 is amplitude / 2 and half levels can be told apart.          *)
(* The two Instants "now" and last_signal_change are only ever used        *)
(* through their difference; the model keeps that difference.              *)
(***************************************************************************)
EXTENDS Integers, Sequences, FiniteSets, TLC

\* ------------------------------------------------------------------ bounds
\* longest decoder message the model lets build up
MaxMsgLen == 1
\* most signals of one character the model lets build up
MaxSymbols == 2
\* samples of one delivered buffer
MaxSamples == 2
\* longest message text the normalisation is tried on
MaxTextLen == 3

\* dot durations the caller may pass (milliseconds)
DotDurations == {100}
\* thresholds the caller may pass (levels)
Thresholds == {20}
\* milliseconds between two consecutive clock readings of different callbacks
Gaps == {100, 2100}
\* a gap between two callbacks that does not fit 16 bits
LongGaps == {65600}
\* milliseconds between the clock readings of two channels of one callback:
\* none to speak of, or a terminal that blocks the flush of the echo
InnerGaps == {0, 300}
\* most channels the host may negotiate
MaxChannels == 2
ChannelCounts == 1..MaxChannels
\* sample values the host may deliver (units of 1/60)
Amps == {0, 0 - 82}
\* what term_size::dimensions() may answer: 0 stands for None
TermWidths == {0, 1}

\* ------------------------------------------------------------------ helpers
\* x as u16
U16(n) == n % 65536
\* x as u32: every number the model can hold lies below 2^31, where the
\* narrowing to 32 bits changes nothing
U32(n) == n

Abs(n) == IF n < 0 THEN 0 - n ELSE n
Max2(a, b) == IF a > b THEN a ELSE b
Clamp(n, lo, hi) == IF n < lo THEN lo ELSE IF n > hi THEN hi ELSE n

\* ceil(a / b) for a >= 0, b > 0
CeilDiv(a, b) == (a + b - 1) \div b

\* ------------------------------------------------------- whitespace_regex
\* The characters \s matches (Unicode White_Space).  Those without an escape
\* of their own are written as their code point.
WhiteSpace ==
    {" ", "\t", "\n", "\r", "\f", "U+000B", "U+0085", "U+00A0", "U+1680",
     "U+2000", "U+2001", "U+2002", "U+2003", "U+2004", "U+2005", "U+2006",
     "U+2007", "U+2008", "U+2009", "U+200A", "U+2028", "U+2029", "U+202F",
     "U+205F", "U+3000"}

IsSpace(ch) == ch \in WhiteSpace

RECURSIVE SkipSpaces(_)
SkipSpaces(s) ==
    IF s # <<>> /\ IsSpace(Head(s)) THEN SkipSpaces(Tail(s)) ELSE s

\* every whitespace character replaced on its own, runs not collapsed
NormalizeEach(s) == [i \in 1..Len(s) |-> IF IsSpace(s[i]) THEN " " ELSE s[i]]

\* whitespace_regex.replace_all(&msg, " "): every maximal run of whitespace
\* becomes one space
RECURSIVE Normalize(_)
Normalize(s) ==
    IF s = <<>> THEN <<>>
    ELSE IF IsSpace(Head(s)) THEN <<" ">> \o Normalize(SkipSpaces(Tail(s)))
    ELSE <<Head(s)>> \o Normalize(Tail(s))

\* ------------------------------------------------------------ tone detection
\* float_samples.iter().skip(c).step_by(n_channels)
RECURSIVE ChannelSamples(_, _, _)
ChannelSamples(samples, c, n) ==
    IF c >= Len(samples) THEN <<>>
    ELSE <<samples[c + 1]>> \o ChannelSamples(samples, c + n, n)

\* for &sample in &filtered_samples { max = max.max(sample.abs()) }
RECURSIVE PeakAbs(_)
PeakAbs(s) == IF s = <<>> THEN 0 ELSE Max2(Abs(Head(s)), PeakAbs(Tail(s)))

\* the samples the peak is taken over: let filtered_samples = channel_samples
FilteredSamples(flt, channel_samples) == channel_samples

\* the level if the scaled peak were rounded to the nearest integer
LevelRounded(max) == Clamp((max + 1) \div 2, 0, 39)

\* ((max * 30.0) as usize).clamp(0, 39)
Level(max) == Clamp(max \div 2, 0, 39)

ToneDetected(max, thr) == Level(max) > thr

\* ------------------------------------------------------------ BandpassFilter
\* A band-pass section with zero gain at zero frequency: y[n] = (x[n] - x[n-2]) / 2.
\* The state is the two past inputs.
BandpassFilterNew == [x1 |-> 0, x2 |-> 0]

BandpassOutput(flt, x) == (x - flt.x2) \div 2
BandpassAdvance(flt, x) == [x1 |-> x, x2 |-> flt.x1]

\* process(sample) applied to each sample of a channel in turn
RECURSIVE BandpassRun(_, _)
BandpassRun(flt, s) ==
    IF s = <<>> THEN <<>>
    ELSE <<BandpassOutput(flt, Head(s))>> \o BandpassRun(BandpassAdvance(flt, Head(s)), Tail(s))

\* ------------------------------------------------------------------ decoder
\* morse_codec::decoder::Decoder as the pipeline uses it: the signals of the
\* character in progress, and the message text.
DecoderNew(ref) == [reference_short_ms |-> ref, current_character |-> <<>>, message |-> <<>>]

\* the character of a group of signals
Decode(sym) ==
    CASE sym = <<".">> -> "E"
      [] sym = <<"-">> -> "T"
      [] sym = <<".", ".">> -> "I"
      [] sym = <<".", "-">> -> "A"
      [] sym = <<"-", ".">> -> "N"
      [] sym = <<"-", "-">> -> "M"
      [] sym = <<".", ".", ".">> -> "S"
      [] sym = <<".", ".", "-">> -> "U"
      [] sym = <<".", "-", ".">> -> "R"
      [] sym = <<".", "-", "-">> -> "W"
      [] sym = <<"-", ".", ".">> -> "D"
      [] sym = <<"-", ".", "-">> -> "K"
      [] sym = <<"-", "-", ".">> -> "G"
      [] sym = <<"-", "-", "-">> -> "O"
      [] OTHER -> "?"

\* a tone of this length: dot or dash
ClassifyHigh(ref, d) == IF d < 2 * ref THEN "." ELSE "-"

\* a silence of this length: gap inside a character, between characters, between words
ClassifyLow(ref, d) ==
    IF d < 2 * ref THEN "intra" ELSE IF d < 5 * ref THEN "char" ELSE "word"

\* the character in progress is decoded and appended to the message
CloseCharacter(dec) ==
    IF dec.current_character = <<>> THEN dec
    ELSE [dec EXCEPT !.message = Append(@, Decode(dec.current_character)),
                     !.current_character = <<>>]

\* signal_event(duration_ms, is_high)
signal_event(dec, duration_ms, is_high) ==
    IF is_high
    THEN [dec EXCEPT !.current_character =
              Append(@, ClassifyHigh(dec.reference_short_ms, duration_ms))]
    ELSE IF dec.current_character = <<>> THEN dec
    ELSE LET gap == ClassifyLow(dec.reference_short_ms, duration_ms) IN
         IF gap = "intra" THEN dec
         ELSE IF gap = "char" THEN CloseCharacter(dec)
         ELSE [CloseCharacter(dec) EXCEPT !.message = Append(@, " ")]

\* signal_event_end(end_word)
signal_event_end(dec, end_word) ==
    LET closed == CloseCharacter(dec) IN
    IF end_word THEN [closed EXCEPT !.message = Append(@, " ")] ELSE closed

\* decoder.message.clear()
message_clear(dec) == [dec EXCEPT !.message = <<>>]

\* ------------------------------------------------------------ terminal output
\* Every write is a sequence of characters; an escape sequence counts as one.
\* print!("\r\x1B[K\x1B[1A"): clear the line and move up
CLEAR_UP == <<"\r", "ESC[K", "ESC[1A">>
\* print!("\r\x1B[K"): clear the line
CLEAR_LINE == <<"\r", "ESC[K">>
\* println!("Out of buffers")
OUT_OF_BUFFERS == <<"Out of buffers", "\n">>

\* term_size::dimensions().map(|(w, _)| w).unwrap_or(80); 0 stands for None
TerminalWidth(answer) == IF answer = 0 THEN 80 ELSE answer

\* the bytes a character takes in a str (UTF-8)
ByteLen(ch) ==
    IF ch \in {"U+0085", "U+00A0"} THEN 2
    ELSE IF ch \in WhiteSpace \ {" ", "\t", "\n", "\r", "\f", "U+000B"} THEN 3
    ELSE 1

\* printed_message.lines().map(|line| ceil(line.len() / terminal_width)).sum():
\* a line ends at LF or at CR LF, its length is counted in bytes; cur is the
\* length of the line being read
RECURSIVE LinesToClear(_, _, _)
LinesToClear(s, cur, width) ==
    IF s = <<>> THEN CeilDiv(cur, width)
    ELSE IF Head(s) = "\n" THEN CeilDiv(cur, width) + LinesToClear(Tail(s), 0, width)
    ELSE IF Head(s) = "\r" /\ Len(s) >= 2 /\ s[2] = "\n"
         THEN CeilDiv(cur, width) + LinesToClear(Tail(Tail(s)), 0, width)
    ELSE LinesToClear(Tail(s), cur + ByteLen(Head(s)), width)

RECURSIVE Repeat(_, _)
Repeat(x, n) == IF n <= 0 THEN <<>> ELSE <<x>> \o Repeat(x, n - 1)

\* the entries of the log of decoder calls
SignalEvent(d, high) == [op |-> "signal_event", duration |-> d, flag |-> high]
SignalEventEnd(flush) == [op |-> "signal_event_end", duration |-> 0, flag |-> flush]

\* ------------------------------------------------------------------- state
VARIABLES
    threshold,          \* listen's threshold
    dot_duration,       \* listen's dot_duration
    n_channels,         \* user_data.format.channels()
    filter,             \* user_data.filter: <<>> is None, <<f>> is Some(f)
    decoder,            \* the Morse decoder
    since_change,       \* the last clock reading minus last_signal_change
    last_signal_state,  \* tone_present
    pc,                 \* "idle", "loop" inside the channel loop of a callback,
                        \* or "aborted" after a panic
    samples,            \* the interleaved samples of the buffer being processed
                        \* (<<>> outside the callback, when the buffer is gone)
    c,                  \* the channel the loop is at (0 outside the loop)
    out,                \* what the last step wrote to the terminal, in order
    calls,              \* the decoder calls of the last step, in order
    logged,             \* the info! lines of the last step
    it,                 \* what the last iteration that ran to its end computed
    own_state,          \* per channel: the tone_present its last iteration left
    hist                \* how many iterations have run (counted up to 2), and the
                        \* flag of the last signal-change event

vars == <<threshold, dot_duration, n_channels, filter, decoder, since_change,
          last_signal_state, pc, samples, c, out, calls, logged, it, own_state, hist>>

NoIteration ==
    [ran |-> FALSE, channel |-> 0, max |-> 0, band_max |-> 0, tone_detected |-> FALSE, duration |-> 0,
     prev_state |-> FALSE, prev_message |-> <<>>, prev_character |-> <<>>,
     appended |-> <<>>, changed |-> FALSE, timeout |-> FALSE, finalized |-> FALSE,
     echoed |-> <<>>, printed_message |-> <<>>, cleared |-> <<>>]

NoHistory == [iterations |-> 0, flags |-> <<>>]

\* the history after an iteration that made these decoder calls
NextHistory(h, made) ==
    LET events == SelectSeq(made, LAMBDA e : e.op = "signal_event") IN
    [iterations |-> IF h.iterations < 2 THEN h.iterations + 1 ELSE 2,
     flags |-> IF events = <<>> THEN h.flags ELSE <<events[Len(events)].flag>>]

\* let mut decoder = Decoder::new().with_reference_short_ms(dot_duration as u16).build();
\* let mut last_signal_change = Instant::now(); let mut last_signal_state = false;
Init ==
    /\ threshold \in Thresholds
    /\ dot_duration \in DotDurations
    /\ n_channels = 0
    /\ filter = <<>>
    /\ decoder = DecoderNew(U16(dot_duration))
    /\ since_change = 0
    /\ last_signal_state = FALSE
    /\ pc = "idle"
    /\ samples = <<>>
    /\ c = 0
    /\ out = <<>>
    /\ calls = <<>>
    /\ logged = <<>>
    /\ it = NoIteration
    /\ own_state = [ch \in 0..(MaxChannels - 1) |-> FALSE]
    /\ hist = NoHistory

\* ------------------------------------------------------------ param_changed
\* user_data.format.parse(param); user_data.filter = Some(BandpassFilter::new(..)).
\* Runs for every Format param the host sends, between two process callbacks.
ParamChanged(channels) ==
    /\ pc = "idle"
    /\ n_channels' = channels
    \* a channel the new format does not have leaves no state behind
    /\ own_state' = [ch \in 0..(MaxChannels - 1) |->
                        IF ch < channels THEN own_state[ch] ELSE FALSE]
    /\ filter' = <<BandpassFilterNew>>
    /\ out' = <<>>
    /\ calls' = <<>>
    /\ logged' = <<>>
    /\ it' = NoIteration
    /\ UNCHANGED <<threshold, dot_duration, decoder, since_change, last_signal_state,
                   pc, samples, c, hist>>

\* format.parse(param).unwrap() on a pod that does not parse: the callback
\* panics before anything is stored and the program ends.
ParamChangedPanics ==
    /\ pc = "idle"
    /\ pc' = "aborted"
    /\ out' = <<>>
    /\ calls' = <<>>
    /\ logged' = <<>>
    /\ it' = NoIteration
    /\ UNCHANGED <<threshold, dot_duration, n_channels, filter, decoder, since_change,
                   last_signal_state, samples, c, own_state, hist>>

\* .expect("expected filter") on a filter that cannot be built: the format has
\* been parsed and stored, the filter is left as it was, the callback panics.
FilterPanics(channels) ==
    /\ pc = "idle"
    /\ pc' = "aborted"
    /\ n_channels' = channels
    /\ own_state' = [ch \in 0..(MaxChannels - 1) |->
                        IF ch < channels THEN own_state[ch] ELSE FALSE]
    /\ out' = <<>>
    /\ calls' = <<>>
    /\ logged' = <<>>
    /\ it' = NoIteration
    /\ UNCHANGED <<threshold, dot_duration, filter, decoder, since_change,
                   last_signal_state, samples, c, hist>>

\* ------------------------------------------------------------------ process
\* stream.dequeue_buffer() is None: println!("Out of buffers")
OutOfBuffers ==
    /\ pc = "idle"
    /\ out' = <<OUT_OF_BUFFERS>>
    /\ calls' = <<>>
    /\ logged' = <<>>
    /\ it' = NoIteration
    /\ UNCHANGED <<threshold, dot_duration, n_channels, filter, decoder, since_change,
                   last_signal_state, pc, samples, c, own_state, hist>>

\* stream.dequeue_buffer() is None and standard output cannot be written:
\* println! panics
OutOfBuffersPanics ==
    /\ pc = "idle"
    /\ pc' = "aborted"
    /\ out' = <<>>
    /\ calls' = <<>>
    /\ logged' = <<>>
    /\ it' = NoIteration
    /\ UNCHANGED <<threshold, dot_duration, n_channels, filter, decoder, since_change,
                   last_signal_state, samples, c, own_state, hist>>

\* a buffer whose datas are empty or hold no data, or a format of no channels:
\* the callback returns without entering the channel loop
EmptyBuffer ==
    /\ pc = "idle"
    /\ out' = <<>>
    /\ calls' = <<>>
    /\ logged' = <<>>
    /\ it' = NoIteration
    /\ UNCHANGED <<threshold, dot_duration, n_channels, filter, decoder, since_change,
                   last_signal_state, pc, samples, c, own_state, hist>>

\* a buffer with data: the channel loop starts at channel 0
Dequeue(buffer) ==
    /\ pc = "idle"
    /\ n_channels > 0
    /\ pc' = "loop"
    /\ samples' = buffer
    /\ c' = 0
    /\ out' = <<>>
    /\ calls' = <<>>
    /\ logged' = <<>>
    /\ it' = NoIteration
    /\ UNCHANGED <<threshold, dot_duration, n_channels, filter, decoder, since_change,
                   last_signal_state, own_state, hist>>

\* if !msg.is_empty() { ...; info!("{}", &msg); decoder.message.clear(); }
LogLines(finalized, msg) == IF finalized THEN <<msg>> ELSE <<>>

\* One pass of the body of  for c in 0..n_channels : the result as a record.
\* gap is the time since the previous clock reading, answer what term_size says.
ChannelIteration(dec, state, since, buffer, ch, n, thr, dot, flt, gap, answer) ==
    LET channel_samples == ChannelSamples(buffer, ch, n)
        filtered_samples == FilteredSamples(flt, channel_samples)
        max == PeakAbs(filtered_samples)
        tone_detected == ToneDetected(max, thr)
        timeout_duration == U32(20 * dot)
        duration == U32(since + gap)
        \* if tone_detected != last_signal_state
        changed == tone_detected # state
        dec1 == IF changed THEN signal_event(dec, U16(duration), state) ELSE dec
        msg1 == Normalize(dec1.message)
        echo == changed /\ Len(msg1) > 0
        out1 == IF echo THEN <<SubSeq(msg1, 1, 1)>> ELSE <<>>
        printed1 == IF echo THEN msg1 ELSE <<>>
        \* if duration > timeout_duration
        timeout == duration > timeout_duration
        finalized == timeout /\ msg1 # <<>>
        dec2 == IF finalized
                THEN signal_event_end(signal_event_end(dec1, FALSE), TRUE)
                ELSE dec1
        msg2 == Normalize(dec2.message)
        redraw == finalized /\ msg2 # printed1
        lines_to_clear == LinesToClear(printed1, 0, TerminalWidth(answer))
        out2 == IF redraw
                THEN out1 \o Repeat(CLEAR_UP, lines_to_clear) \o <<CLEAR_LINE>>
                ELSE out1
    IN  [decoder |-> IF finalized THEN message_clear(dec2) ELSE dec1,
         last_signal_state |-> IF timeout THEN FALSE
                               ELSE IF changed THEN tone_detected ELSE state,
         since_change |-> IF changed \/ timeout THEN 0 ELSE since + gap,
         out |-> out2,
         calls |-> (IF changed THEN <<SignalEvent(U16(duration), state)>> ELSE <<>>)
                   \o (IF finalized
                       THEN <<SignalEventEnd(FALSE), SignalEventEnd(TRUE)>>
                       ELSE <<>>),
         logged |-> LogLines(finalized, msg2),
         \* term_size::dimensions() is asked only when the message is redrawn
         asked |-> redraw,
         echo |-> echo,
         \* where the iteration stands when the flush of the echo fails:
         \* the event delivered, nothing on the terminal, the change not recorded
         echo_failed |->
             [decoder |-> dec1, last_signal_state |-> state, since_change |-> since + gap,
              out |-> <<>>, calls |-> <<SignalEvent(U16(duration), state)>>],
         \* where it stands when the flush of the redraw fails: the signal
         \* ended, the clear sequences not written, nothing logged or cleared
         redraw_failed |->
             [decoder |-> dec2, last_signal_state |-> FALSE, since_change |-> 0,
              out |-> out1,
              calls |-> (IF changed THEN <<SignalEvent(U16(duration), state)>> ELSE <<>>)
                        \o <<SignalEventEnd(FALSE), SignalEventEnd(TRUE)>>],
         it |-> [ran |-> TRUE, channel |-> ch, max |-> max,
                 \* the peak the band-pass filter would have left
                 band_max |-> IF flt = <<>> THEN 0
                              ELSE PeakAbs(BandpassRun(flt[1], channel_samples)),
                 tone_detected |-> tone_detected, duration |-> duration,
                 prev_state |-> state, prev_message |-> Normalize(dec.message),
                 prev_character |-> dec.current_character,
                 appended |-> SubSeq(msg1, Len(Normalize(dec.message)) + 1, Len(msg1)),
                 changed |-> changed, timeout |-> timeout, finalized |-> finalized,
                 echoed |-> printed1,
                 printed_message |-> IF redraw THEN msg2 ELSE printed1,
                 cleared |-> IF finalized THEN dec2.message ELSE <<>>]]

\* the loop body for channel c of the buffer being processed
ProcessChannel(gap, answer) ==
    /\ pc = "loop"
    /\ gap \in (IF c = 0 THEN Gaps \cup LongGaps ELSE InnerGaps)
    /\ LET r == ChannelIteration(decoder, last_signal_state, since_change, samples, c,
                                 n_channels, threshold, dot_duration, filter, gap, answer)
       IN  /\ (~r.asked => answer = 0)
           /\ Len(r.decoder.message) <= MaxMsgLen
           /\ Len(r.decoder.current_character) <= MaxSymbols
           /\ decoder' = r.decoder
           /\ last_signal_state' = r.last_signal_state
           /\ since_change' = r.since_change
           /\ out' = r.out
           /\ calls' = r.calls
           /\ logged' = r.logged
           /\ it' = r.it
           /\ own_state' = [own_state EXCEPT ![c] = r.last_signal_state]
           /\ hist' = NextHistory(hist, r.calls)
    /\ c' = IF c + 1 < n_channels THEN c + 1 ELSE 0
    /\ samples' = IF c + 1 < n_channels THEN samples ELSE <<>>
    /\ pc' = IF c + 1 < n_channels THEN "loop" ELSE "idle"
    /\ UNCHANGED <<threshold, dot_duration, n_channels, filter>>

\* the loop body for channel c when standard output cannot be written:
\* flush().expect("Failed to flush stdout") panics, at the echo or at the redraw
FlushPanics(gap, at) ==
    /\ pc = "loop"
    /\ gap \in (IF c = 0 THEN Gaps \cup LongGaps ELSE InnerGaps)
    /\ at \in {"echo", "redraw"}
    /\ LET r == ChannelIteration(decoder, last_signal_state, since_change, samples, c,
                                 n_channels, threshold, dot_duration, filter, gap, 0)
           f == IF at = "echo" THEN r.echo_failed ELSE r.redraw_failed
       IN  /\ IF at = "echo" THEN r.echo ELSE r.asked
           /\ decoder' = f.decoder
           /\ last_signal_state' = f.last_signal_state
           /\ since_change' = f.since_change
           /\ out' = f.out
           /\ calls' = f.calls
           /\ hist' = NextHistory(hist, f.calls)
    /\ logged' = <<>>
    /\ it' = NoIteration
    /\ pc' = "aborted"
    /\ UNCHANGED <<threshold, dot_duration, n_channels, filter, samples, c, own_state>>

Buffers == [1..MaxSamples -> Amps]

\* the buffers of one frame of n channels
Frames(n) == [1..n -> Amps]

Next ==
    \/ OutOfBuffers
    \/ OutOfBuffersPanics
    \/ EmptyBuffer
    \/ \E channels \in ChannelCounts : ParamChanged(channels)
    \/ ParamChangedPanics
    \/ \E channels \in ChannelCounts : FilterPanics(channels)
    \/ \E buffer \in Frames(n_channels) : Dequeue(buffer)
    \/ \E gap \in Gaps \cup InnerGaps, answer \in TermWidths : ProcessChannel(gap, answer)
    \/ \E gap \in Gaps \cup InnerGaps, at \in {"echo", "redraw"} : FlushPanics(gap, at)

Spec == Init /\ [][Next]_vars

\* ------------------------------------------------------ one format only
\* The pipeline when the host only ever offers formats of n channels and the
\* callbacks come these gaps apart.  Every step of NextOf is a step of Next.
NextOf(n, gaps) ==
    \/ OutOfBuffers
    \/ OutOfBuffersPanics
    \/ EmptyBuffer
    \/ ParamChanged(n)
    \/ ParamChangedPanics
    \/ FilterPanics(n)
    \/ \E buffer \in Frames(n_channels) : Dequeue(buffer)
    \/ \E gap \in gaps \cup InnerGaps, answer \in TermWidths : ProcessChannel(gap, answer)
    \/ \E gap \in gaps \cup InnerGaps, at \in {"echo", "redraw"} : FlushPanics(gap, at)

NextMono == NextOf(1, Gaps)
SpecMono == Init /\ [][NextMono]_vars

\* two channels, the callbacks one dot apart
NextStereo == NextOf(2, {100})
SpecStereo == Init /\ [][NextStereo]_vars

\* ------------------------------------------------- tone detection on its own
\* The pipeline started with the given configuration and decoder text.
Start(thr, dot, text) ==
    /\ threshold = thr
    /\ dot_duration = dot
    /\ n_channels = 0
    /\ filter = <<>>
    /\ decoder = [DecoderNew(U16(dot)) EXCEPT !.message = text]
    /\ since_change = 0
    /\ last_signal_state = FALSE
    /\ pc = "idle"
    /\ samples = <<>>
    /\ c = 0
    /\ out = <<>>
    /\ calls = <<>>
    /\ logged = <<>>
    /\ it = NoIteration
    /\ own_state = [ch \in 0..(MaxChannels - 1) |-> FALSE]
    /\ hist = NoHistory

\* No message builds up here, so nothing is written and no flush can fail.
\* thresholds and sample values around the level steps: 41/60 scales to 20.5,
\* 77/60 to 38.5, 200/60 to 100
DetectThresholds == {20, 38, 39}
DetectAmps == {0, 41, 0 - 77, 200}
DetectBuffers == [1..MaxSamples -> DetectAmps]

InitDetect == \E thr \in DetectThresholds, dot \in DotDurations : Start(thr, dot, <<>>)

NextDetect ==
    \/ OutOfBuffers
    \/ OutOfBuffersPanics
    \/ EmptyBuffer
    \/ ParamChanged(1)
    \/ ParamChangedPanics
    \/ FilterPanics(1)
    \/ \E buffer \in DetectBuffers : Dequeue(buffer)
    \/ \E answer \in TermWidths : ProcessChannel(2100, answer)

SpecDetect == InitDetect /\ [][NextDetect]_vars

\* ------------------------------------------------ normalisation on any text
\* The pipeline with any text of letters and whitespace in decoder.message.
TextChars == {"E", " ", "\t", "\n", "\f", "U+00A0"}
Texts == UNION {[1..k -> TextChars] : k \in 0..MaxTextLen}

InitText == \E thr \in Thresholds, dot \in DotDurations, text \in Texts : Start(thr, dot, text)

NextText ==
    \/ OutOfBuffers
    \/ OutOfBuffersPanics
    \/ EmptyBuffer
    \/ ParamChanged(1)
    \/ ParamChangedPanics
    \/ FilterPanics(1)
    \/ \E buffer \in Buffers : Dequeue(buffer)
    \/ \E answer \in TermWidths : ProcessChannel(2100, answer)
    \/ \E at \in {"echo", "redraw"} : FlushPanics(2100, at)

SpecText == InitText /\ [][NextText]_vars

\* ------------------------------------------------- any caller's dot_duration
\* dot durations below and above 2^16; buffers arrive a long gap apart
ConfigDotDurations == {100, 65636}

InitConfig == \E thr \in Thresholds, dot \in ConfigDotDurations : Start(thr, dot, <<>>)

NextConfig ==
    \/ OutOfBuffers
    \/ OutOfBuffersPanics
    \/ EmptyBuffer
    \/ ParamChanged(1)
    \/ ParamChangedPanics
    \/ FilterPanics(1)
    \/ \E buffer \in Buffers : Dequeue(buffer)
    \/ \E gap \in LongGaps, answer \in TermWidths : ProcessChannel(gap, answer)
    \/ \E gap \in LongGaps, at \in {"echo", "redraw"} : FlushPanics(gap, at)

SpecConfig == InitConfig /\ [][NextConfig]_vars

\* ------------------------------------------------------------------ claims
\* the signal_event calls and the signal_event_end calls of the last step
SignalEvents == SelectSeq(calls, LAMBDA e : e.op = "signal_event")
EndEvents == SelectSeq(calls, LAMBDA e : e.op = "signal_event_end")

\* the text the last step wrote to the terminal, control sequences left out
RECURSIVE TextOf(_)
TextOf(writes) ==
    IF writes = <<>> THEN <<>>
    ELSE IF Head(writes) \in {CLEAR_UP, CLEAR_LINE, OUT_OF_BUFFERS} THEN TextOf(Tail(writes))
    ELSE Head(writes) \o TextOf(Tail(writes))

\* the control sequences the last step wrote to the terminal
Erasures == SelectSeq(out, LAMBDA w : w \in {CLEAR_UP, CLEAR_LINE})

\* C1: in an iteration whose tone boolean differs from the stored tone_present,
\* exactly one signal-change event is delivered, carrying the elapsed
\* milliseconds now - last_signal_change and the previous tone_present, and
\* last_signal_change is then now (and tone_present the new boolean, unless the
\* idle-timeout branch of the same iteration writes it again); in an iteration
\* whose boolean equals tone_present no signal-change event is delivered.
C1_SignalChangeEvent ==
    it.ran =>
        IF it.tone_detected # it.prev_state
        THEN /\ SignalEvents = <<SignalEvent(it.duration, it.prev_state)>>
             /\ since_change = 0
             /\ (it.timeout \/ last_signal_state = it.tone_detected)
        ELSE SignalEvents = <<>>

\* C2: an idle timeout fires in an iteration only if duration exceeds
\* 20 x dot_duration and the tone is absent.
C2_TimeoutOnlyWhenToneAbsent ==
    (it.ran /\ it.timeout) =>
        (it.duration > 20 * dot_duration /\ ~it.tone_detected)

\* C3: tone_present changes only in an iteration whose boolean differs from it,
\* and after every iteration it equals the boolean computed in that iteration.
C3_TonePresentFollowsBoolean ==
    it.ran =>
        /\ last_signal_state = it.tone_detected
        /\ (last_signal_state # it.prev_state => it.tone_detected # it.prev_state)

\* C4: on every idle timeout signal_event_end(false) and then
\* signal_event_end(true) are called, each once, whether or not the message is empty.
C4_TimeoutEndsSignalTwice ==
    (it.ran /\ it.timeout) =>
        EndEvents = <<SignalEventEnd(FALSE), SignalEventEnd(TRUE)>>

\* C5: with dot_duration = 100, once a dot, a gap inside the character and a dash
\* have been delivered and the silence lasts past the idle timeout, the pipeline
\* finalizes the message "A".
C5_DotDashFinalizesA ==
    (/\ it.ran /\ it.timeout /\ ~it.changed /\ ~it.tone_detected
     /\ dot_duration = 100
     /\ it.prev_message = <<>>
     /\ it.prev_character = <<".", "-">>)
        => (logged = << <<"A">> >> \/ logged = << <<"A", " ">> >>)

\* C6: while a message is accumulating, an iteration writes to the terminal
\* exactly the characters by which the normalized message grew, and nothing
\* when it did not grow.
C6_EchoOnlyNewCharacters ==
    (it.ran /\ ~it.timeout) => TextOf(out) = it.appended

\* C7: on finalization, if the finalized text differs from the last-echoed
\* text, the previously displayed lines are erased, the finalized text is printed
\* and recorded; if it equals the last-echoed text nothing is erased or redrawn.
C7_FinalizeRedraws ==
    (it.ran /\ it.finalized) =>
        LET finalized_text == logged[1]
            echo == IF it.changed /\ it.echoed # <<>> THEN SubSeq(it.echoed, 1, 1) ELSE <<>>
        IN  IF finalized_text # it.echoed
            THEN /\ Erasures = Repeat(CLEAR_UP,
                                      LinesToClear(it.echoed, 0, 80)) \o <<CLEAR_LINE>>
                    \/ \E w \in TermWidths \ {0} :
                          Erasures = Repeat(CLEAR_UP, LinesToClear(it.echoed, 0, w))
                                     \o <<CLEAR_LINE>>
                 /\ TextOf(out) = echo \o finalized_text
                 /\ it.printed_message = finalized_text
            ELSE /\ Erasures = <<>>
                 /\ TextOf(out) = echo

\* C8: right after an idle timeout the decoder holds neither message text nor
\* signals of a character in progress.
C8_NothingCarriedOverTimeout ==
    (it.ran /\ it.timeout) =>
        (decoder.message = <<>> /\ decoder.current_character = <<>>)

\* C9: the tone_present a channel's boolean is compared against is the one
\* that channel's own last iteration left.
C9_ChannelsIndependent ==
    pc = "loop" => last_signal_state = own_state[c]

\* C10: the peak used for tone detection is taken over the output of the
\* band-pass filter applied to the channel's samples.
C10_PeakOverFilteredSamples ==
    (it.ran /\ filter # <<>>) => it.max = it.band_max

\* C11 (as amended): the level is the scaled peak max * 30 cut down to an integer
\* and clamped to 0..39, the tone is present iff level > threshold, and with a
\* threshold of 39 or more no iteration detects a tone.
C11_LevelTruncates ==
    it.ran =>
        /\ \E level \in 0..39 :
              /\ IF it.max >= 78 THEN level = 39
                 ELSE 2 * level <= it.max /\ it.max < 2 * level + 2
              /\ it.tone_detected = (level > threshold)
        /\ (threshold >= 39 => ~it.tone_detected)

\* C11 as stated: the level is round(max * 30) clamped to 0..39.
C11_LevelRounds ==
    it.ran =>
        \E level \in 0..39 :
            /\ IF it.max >= 77 THEN level = 39
               ELSE 2 * level - 1 <= it.max /\ it.max < 2 * level + 1
            /\ it.tone_detected = (level > threshold)

\* a peak of 20.5 levels against a threshold of 20: no tone
C11_Witness ==
    it.ran /\ it.max = 41 /\ threshold = 20 /\ ~it.tone_detected

\* a process callback that returns without entering the channel loop: a step
\* from idle to idle that is not a change of format
TickWithoutLoop == pc = "idle" /\ pc' = "idle" /\ n_channels' = n_channels

\* a tick that leaves the pipeline as it was and delivers and logs nothing
TickAbsorbed ==
    /\ calls' = <<>>
    /\ logged' = <<>>
    /\ UNCHANGED <<decoder, since_change, last_signal_state, filter, hist>>

\* C12: a tick without a buffer, or whose buffer holds no data, is skipped:
\* nothing is written to the terminal or logged, no event reaches the decoder,
\* and tone_present, last_signal_change and the decoder stay as they were.
C12_TickSilent ==
    [][TickWithoutLoop => (TickAbsorbed /\ out' = <<>>)]_vars

\* C13: the first iteration ever processed has no earlier buffer to measure
\* from, so it delivers neither a signal-change event nor an idle timeout.
C13_FirstFrameDeliversNothing ==
    (it.ran /\ hist.iterations = 1) => (SignalEvents = <<>> /\ ~it.timeout)

\* no whitespace other than a space, and no two whitespace characters in a row
Clean(t) ==
    \A i \in 1..Len(t) :
        IsSpace(t[i]) => (t[i] = " " /\ (i > 1 => ~IsSpace(t[i - 1])))

\* C15: normalising a message twice gives what normalising it once gives, and
\* every text that is echoed or logged is the normalised message: it holds no
\* run of whitespace and no whitespace other than a space.
C15_NormalizeIdempotentAndTotal ==
    /\ Normalize(Normalize(decoder.message)) = Normalize(decoder.message)
    /\ Normalize(Normalize(it.cleared)) = Normalize(it.cleared)
    /\ Clean(Normalize(decoder.message))
    /\ Clean(TextOf(out))
    /\ \A i \in 1..Len(logged) : Clean(logged[i])
    /\ (it.ran /\ it.finalized) => logged = <<Normalize(it.cleared)>>

\* a message was logged shorter than the decoder held it
C15_Witness ==
    it.ran /\ it.finalized /\ Len(logged) = 1 /\ Len(logged[1]) < Len(it.cleared)

\* C16: once the tone has ended and stayed absent past the idle timeout,
\* everything the decoder received has been finalized into a logged message
\* and the decoder is empty again, also when all it held was a first character
\* in progress.
C16_FlushedOnInactivity ==
    (it.ran /\ it.timeout /\ ~it.tone_detected /\ ~it.prev_state) =>
        /\ decoder.message = <<>>
        /\ decoder.current_character = <<>>
        /\ ((it.prev_message # <<>> \/ it.prev_character # <<>>) => Len(logged) = 1)

\* C17: a step logs one line exactly when it finalizes a message (the decoder
\* is told to end the signal); the line is the normalised text the decoder held
\* when it was cleared; no other step logs anything.
C17_OneLogLinePerFinalizedMessage ==
    /\ Len(logged) <= 1
    /\ (Len(logged) = 1) <=> (EndEvents # <<>>)
    /\ Len(logged) = 1 =>
          /\ it.ran /\ it.timeout
          /\ it.cleared # <<>>
          /\ logged[1] = Normalize(it.cleared)
          /\ decoder.message = <<>>
    /\ ~it.ran => logged = <<>>

\* C18: two consecutive signal-change events never carry the same
\* previous-state flag.
C18_EventsAlternate ==
    [][\A i \in 1..Len(calls') :
          (hist.flags # <<>> /\ calls'[i].op = "signal_event")
              => calls'[i].flag # hist.flags[1]]_vars

\* C19: the duration of a signal-change event is the elapsed milliseconds,
\* unchanged by the narrowing to 16 bits.
C19_DurationNotNarrowed ==
    it.ran => \A i \in 1..Len(SignalEvents) : SignalEvents[i].duration = it.duration

\* C20: the decoder's reference short duration is the caller's dot_duration,
\* the one the idle timeout of 20 x dot_duration is computed from.
C20_ReferenceIsDotDuration ==
    /\ decoder.reference_short_ms = dot_duration
    /\ it.ran => (it.timeout <=> it.duration > 20 * dot_duration)

====
